---- MODULE Spec2Model ----
(***************************************************************************)
(* dploy: progressive rollout of a service behind the Backplane routing    *)
(* plane.  The model follows src/main.go (the rollout) and                 *)
(* src/lib/backplane/request.go (the routing-plane client).                *)
(*                                                                         *)
(* Program state: the flags, the position of main, the incumbent route it  *)
(* resolved.  Environment state: the topology held by the routing plane.   *)
(* History variables (calls, sent, shapes, polls, ...) record what the     *)
(* program did; the code keeps none of them.                               *)
(***************************************************************************)
EXTENDS Integers, Sequences, FiniteSets, TLC

(* ---------------------------- bounds ---------------------------------- *)

\* Largest -replica-count explored.
MaxReplicas == 2

\* Number of readiness polls the history variables record exactly; the wait
\* loop itself is not bounded, its later polls are only not counted.
MaxPolls == 3

\* Backends that may be bound to a route: one more than MaxReplicas, so that
\* a count can exceed the desired one.
MaxBackends == MaxReplicas + 1

(* ------------------------- inputs and data ---------------------------- *)

\* -endpoint flag: the pattern the rollout targets.
endpoint == "example.com"

\* A pattern of another Endpoint of the same account.
OtherPattern == "other.io"

\* Route identifiers present on the routing plane before the rollout.
ExistingIDs == {"r1", "r2"}

\* The identifier the routing plane assigns to a Route created by POST /route.
CreatedID == "r3"

\* Values of the -route flag: unset, or an identifier given by the caller.
RouteFlags == {"", "r2"}

\* Weights a Route may hold before the rollout: idle or fully active.
Weights == {0, 100}

\* backplane.Route, with len(Backends) for the Backends slice.
Route(id, weight, backends) == [ID |-> id, Weight |-> weight, Backends |-> backends]

\* backplane.Endpoint.
Endpoint(pattern, routes) == [Pattern |-> pattern, Routes |-> routes]

\* Zero values of the Go structs (var oldRoute backplane.Route, var myEndpoint).
ZeroRoute == Route("", 0, 0)
ZeroEndpoint == Endpoint("", << >>)

\* No response: http.Do returned an error (or no request was made yet).
NoResponse == [transport |-> FALSE, status |-> 0, decodable |-> FALSE]

\* Outcomes of http.Do: no response at all, or a response with its status
\* code and a body that decodes as JSON or does not.
Statuses == {200, 204, 500}
Responses ==
    {NoResponse} \cup [transport : {TRUE}, status : Statuses, decodable : BOOLEAN]

\* Outcomes of the orchestrator's ServiceCreate.
DockerOutcomes == {"ok", "error"}

\* Route lists of the target Endpoint before the rollout: identifiers are
\* distinct within an Endpoint, no backend of interest is bound yet.
RouteLists ==
    {<< >>}
    \cup { <<Route(a, w, 0)>> : a \in ExistingIDs, w \in Weights }
    \cup { <<Route(ab[1], ww[1], 0), Route(ab[2], ww[2], 0)>> :
             ab \in {x \in ExistingIDs \X ExistingIDs : x[1] # x[2]},
             ww \in Weights \X Weights }

\* The other Endpoint of the account; the rollout never reads its routes.
OtherEndpoint == Endpoint(OtherPattern, <<Route("r1", 100, 0)>>)

\* Topologies held by the routing plane before the rollout: at most one
\* Endpoint per pattern, in any order.
Topologies ==
    {<< >>, <<OtherEndpoint>>}
    \cup { <<Endpoint(endpoint, rs)>> : rs \in RouteLists }
    \cup { <<Endpoint(endpoint, rs), OtherEndpoint>> : rs \in RouteLists }
    \cup { <<OtherEndpoint, Endpoint(endpoint, rs)>> : rs \in RouteLists }

\* A plan that takes weight back from the new route at its third step.
Steps_Dip == << <<75, 25>>, <<50, 50>>, <<60, 40>>, <<0, 100>> >>

\* A plan whose last step stops short of the cutover.
Steps_NoCutover == << <<75, 25>>, <<50, 50>>, <<25, 75>>, <<25, 75>> >>

\* The weight pairs of the four shape calls of main, in program order.
Steps == << <<75, 25>>, <<50, 50>>, <<25, 75>>, <<0, 100>> >>

(* ----------------------------- state ---------------------------------- *)

VARIABLES
    pc,                 \* position of main
    dontCreateService,  \* -dont-create-service
    routeID,            \* *routeID: the flag, then the created route
    replicaCount,       \* -replica-count (uint64)
    q,                  \* main's q: << >> while nil, else <<q.Endpoints>>
    oldRoute,           \* oldRoute.ID once resolved
    step,               \* index in Steps of the next shape call
    err,                \* error that ended the run ("nil" while none)
    plane,              \* topology held by the routing plane
    calls,              \* history: Client operations invoked
    sent,               \* history: HTTP requests handed to http.Do
    shapes,             \* history: weights maps passed to Client.Shape
    body,               \* Routes of the last POST /shape body, as encoded
    orchestrator,       \* history: ServiceCreate calls made
    polls,              \* history: ticks consumed by waitForContainers
    observed,           \* history: backend counts seen by the last poll
    firstMet,           \* history: poll at which the count first equalled
    pauses,             \* history: time.Sleep(*shapePause) calls made
    truncated,          \* history: polls beyond MaxPolls were not recorded
    routeFlag,          \* history: -route as flag.Parse read it
    lastResp            \* history: the response to the last recorded request

vars == << pc, dontCreateService, routeID, replicaCount, q, oldRoute, step, err,
           plane, calls, sent, shapes, body, orchestrator, polls, observed,
           firstMet, pauses, truncated, routeFlag, lastResp >>

(* ------------------ src/lib/backplane/request.go ---------------------- *)

\* A client that decodes the body of every 200 response, wanted or not.
APIError_DecodeAlways(resp, wantsOut) ==
    IF ~resp.transport THEN "transport"
    ELSE IF resp.status # 200 THEN "status"
    ELSE IF ~resp.decodable THEN "decode"
    ELSE "nil"

\* Client.API: the error it returns for a response.  wantsOut is out != nil.
\* http.NewRequest and the JSON encoding of the request cannot fail for the
\* methods, paths and bodies this program passes.
APIError(resp, wantsOut) ==
    IF ~resp.transport THEN "transport"
    ELSE IF resp.status # 200 THEN "status"
    ELSE IF wantsOut /\ ~resp.decodable THEN "decode"
    ELSE "nil"

\* A client that sends the request again when the first attempt did not get
\* a 200.
APIRequests_Retry(method, path, resp) ==
    IF resp.transport /\ resp.status = 200
    THEN << [method |-> method, path |-> path] >>
    ELSE << [method |-> method, path |-> path], [method |-> method, path |-> path] >>

\* Client.API: the requests it hands to http.DefaultClient.Do for one
\* invocation, whatever the response turns out to be.
APIRequests(method, path, resp) == << [method |-> method, path |-> path] >>

\* The request each Client operation makes through Client.API.
OpMethod(op) == IF op \in {"Route", "Shape"} THEN "POST" ELSE "GET"
OpPath(op) ==
    CASE op = "Query" -> "/q"
      [] op = "GenToken" -> "/q"
      [] op = "Route" -> "/route"
      [] op = "Shape" -> "/shape"

\* The routing plane acts on a request exactly when it answers 200.
Accepted(resp) == resp.transport /\ resp.status = 200

\* encoding/json of a Route under its omitempty tags: ID and Weight are left
\* out when they hold the zero value, RawSelector never is; Strategy and
\* Backends are always empty in the requests of this program.
EncodeRoute(id, weight) ==
    IF id # "" /\ weight # 0 THEN [ID |-> id, RawSelector |-> "", Weight |-> weight]
    ELSE IF id # "" THEN [ID |-> id, RawSelector |-> ""]
    ELSE IF weight # 0 THEN [RawSelector |-> "", Weight |-> weight]
    ELSE [RawSelector |-> ""]

\* Orders in which a range over a Go map may visit its keys.
Orders(S) == { o \in [1..Cardinality(S) -> S] : \A i, j \in 1..Cardinality(S) : o[i] = o[j] => i = j }

\* Client.Shape: the Routes of the request body, built by ranging over the
\* weights map in the order o and then encoded.
ShapeBody(weights, o) == [i \in DOMAIN o |-> EncodeRoute(o[i], weights[o[i]])]

\* The weight the routing plane reads for a Route of a /shape body: a field
\* left out of the JSON decodes to 0.
BodyWeight(r) == IF "Weight" \in DOMAIN r THEN r.Weight ELSE 0

\* The routing plane after an accepted POST /shape: the Routes named in the
\* body, under the Endpoint of that pattern, take the weights of the body;
\* all other Routes keep theirs.
NewWeight(route, b) ==
    IF \E i \in DOMAIN b : "ID" \in DOMAIN b[i] /\ b[i].ID = route.ID
    THEN BodyWeight(b[CHOOSE i \in DOMAIN b : "ID" \in DOMAIN b[i] /\ b[i].ID = route.ID])
    ELSE route.Weight

ApplyShape(topology, pattern, b) ==
    [i \in DOMAIN topology |->
        IF topology[i].Pattern # pattern THEN topology[i]
        ELSE Endpoint(pattern,
                 [j \in DOMAIN topology[i].Routes |->
                     Route(topology[i].Routes[j].ID,
                           NewWeight(topology[i].Routes[j], b),
                           topology[i].Routes[j].Backends)])]

\* The routing plane after an accepted POST /route: a Route with the
\* assigned identifier, weight 0 and no backend, under the Endpoint of the
\* pattern (which is created when the account has none).
ApplyRoute(topology, pattern, id) ==
    IF \E i \in DOMAIN topology : topology[i].Pattern = pattern
    THEN [i \in DOMAIN topology |->
             IF topology[i].Pattern # pattern THEN topology[i]
             ELSE Endpoint(pattern, Append(topology[i].Routes, Route(id, 0, 0)))]
    ELSE Append(topology, Endpoint(pattern, <<Route(id, 0, 0)>>))

(* --------------------------- src/main.go ------------------------------ *)

\* main: "for _, e := range q.Endpoints { if *endpoint == e.Pattern {...; break} }".
SelectEndpoint(snap) ==
    IF \E i \in DOMAIN snap : snap[i].Pattern = endpoint
    THEN snap[CHOOSE i \in DOMAIN snap :
               /\ snap[i].Pattern = endpoint
               /\ \A k \in 1..(i - 1) : snap[k].Pattern # endpoint]
    ELSE ZeroEndpoint

\* A scan without the break: the last Route of weight 100 is kept.
SelectOldRoute_Last(e) ==
    IF \E j \in DOMAIN e.Routes : e.Routes[j].Weight = 100
    THEN e.Routes[CHOOSE j \in DOMAIN e.Routes :
                      /\ e.Routes[j].Weight = 100
                      /\ \A k \in (j + 1)..Len(e.Routes) : e.Routes[k].Weight # 100]
    ELSE ZeroRoute

\* main: "for _, route := range myEndpoint.Routes { if route.Weight == 100 {...; break} }".
SelectOldRoute(e) ==
    IF \E j \in DOMAIN e.Routes : e.Routes[j].Weight = 100
    THEN e.Routes[CHOOSE j \in DOMAIN e.Routes :
                      /\ e.Routes[j].Weight = 100
                      /\ \A k \in 1..(j - 1) : e.Routes[k].Weight # 100]
    ELSE ZeroRoute

\* A shape that hands the two weights to the wrong routes.
ShapeWeights_Swapped(oldroute, newroute, oldweight, newweight) ==
    [k \in {oldroute, newroute} |-> IF k = newroute THEN oldweight ELSE newweight]

\* shape: the map literal {oldroute: oldweight, newroute: newweight}; when
\* both keys are equal the later element is the one the map keeps.
ShapeWeights(oldroute, newroute, oldweight, newweight) ==
    [k \in {oldroute, newroute} |-> IF k = newroute THEN newweight ELSE oldweight]

\* A wait that leaves the loop as soon as the route shows at most n backends.
Ready_AtMost(snap, id, n) ==
    \E i \in DOMAIN snap :
        /\ snap[i].Pattern = endpoint
        /\ \E j \in DOMAIN snap[i].Routes :
               /\ snap[i].Routes[j].ID = id
               /\ snap[i].Routes[j].Backends <= n

\* A wait that leaves the loop only at the second tick or later.
Ready_NotFirstTick(snap, id, n) ==
    /\ polls > 0
    /\ \E i \in DOMAIN snap :
        /\ snap[i].Pattern = endpoint
        /\ \E j \in DOMAIN snap[i].Routes :
               /\ snap[i].Routes[j].ID = id
               /\ snap[i].Routes[j].Backends = n

\* A wait that takes a snapshot without the route for a ready one.
Ready_AbsentIsReady(snap, id, n) ==
    \/ \A i \in DOMAIN snap :
           snap[i].Pattern = endpoint =>
               \A j \in DOMAIN snap[i].Routes : snap[i].Routes[j].ID # id
    \/ \E i \in DOMAIN snap :
        /\ snap[i].Pattern = endpoint
        /\ \E j \in DOMAIN snap[i].Routes :
               /\ snap[i].Routes[j].ID = id
               /\ snap[i].Routes[j].Backends = n

\* waitForContainers: the test that leaves the loop ("break outer"), on the
\* snapshot snap, for the route id and the desired count n = int(*replicaCount)
\* (the conversion changes no value below 2^63).
Ready(snap, id, n) ==
    \E i \in DOMAIN snap :
        /\ snap[i].Pattern = endpoint
        /\ \E j \in DOMAIN snap[i].Routes :
               /\ snap[i].Routes[j].ID = id
               /\ snap[i].Routes[j].Backends = n

\* Backend counts a snapshot shows for the route id under the target Endpoint
\* (empty when the Endpoint or the Route is absent).
Counts(snap, id) ==
    UNION { { snap[i].Routes[j].Backends :
                j \in { k \in DOMAIN snap[i].Routes : snap[i].Routes[k].ID = id } } :
            i \in { k \in DOMAIN snap : snap[k].Pattern = endpoint } }

(* ----------------------------- actions -------------------------------- *)

Init ==
    /\ pc = "Init"
    /\ dontCreateService \in BOOLEAN
    /\ routeID \in RouteFlags
    /\ routeFlag = routeID
    /\ lastResp = NoResponse
    /\ replicaCount \in 0..MaxReplicas
    /\ plane \in Topologies
    /\ q = << >>
    /\ oldRoute = ""
    /\ step = 1
    /\ err = "nil"
    /\ calls = << >>
    /\ sent = << >>
    /\ shapes = << >>
    /\ body = << >>
    /\ orchestrator = 0
    /\ polls = 0
    /\ observed = {}
    /\ firstMet = 0
    /\ pauses = 0
    /\ truncated = FALSE

\* One invocation of the Client operation op from position pc, answered by
\* resp: the operation and the requests Client.API sends are recorded.
Invoke(op, resp) ==
    /\ calls' = Append(calls, [op |-> op, at |-> pc,
                               err |-> APIError(resp, op # "Shape")])
    /\ sent' = sent \o APIRequests(OpMethod(op), OpPath(op), resp)
    /\ lastResp' = resp

\* An error that is logged without leaving main: the call is made again.
Fatal_Retry(e) ==
    /\ pc' = pc
    /\ err' = e

\* An error that is swallowed: main stays where it was, as if the call had
\* only not succeeded yet.
Fatal_Swallowed(e) ==
    /\ pc' = pc
    /\ err' = err

\* log.Fatal(err): the process exits with the error.
Fatal(e) ==
    /\ pc' = "Failed"
    /\ err' = e

\* A main that sleeps after a shape call whatever it returned.
AfterShape_IgnoreError(e, s) ==
    IF s = Len(Steps) THEN "Complete" ELSE "Pausing"

\* A main that makes the same shape call again after it failed.
AfterShape_RetryStep(e, s) ==
    IF e # "nil" THEN "Shaping"
    ELSE IF s = Len(Steps) THEN "Complete"
    ELSE "Pausing"

\* main: where it stands after its s-th shape call returned the error e.
AfterShape(e, s) ==
    IF e # "nil" THEN "Failed"
    ELSE IF s = Len(Steps) THEN "Complete"
    ELSE "Pausing"

\* A main that asks for a token whether or not the service is to be created.
GenToken_Always ==
    /\ pc = "Init"
    /\ \E resp \in Responses :
        /\ Invoke("GenToken", resp)
        /\ IF APIError(resp, TRUE) # "nil"
           THEN Fatal(APIError(resp, TRUE))
           ELSE pc' = "ServiceProvisioning" /\ err' = err
    /\ UNCHANGED << dontCreateService, routeID, replicaCount, q, oldRoute, step,
                    plane, shapes, body, orchestrator, polls, observed,
                    firstMet, pauses, truncated, routeFlag >>

\* main, !*dontCreateService, createService: bp.GenToken().
GenToken ==
    /\ pc = "Init"
    /\ ~dontCreateService
    /\ \E resp \in Responses :
        /\ Invoke("GenToken", resp)
        /\ IF APIError(resp, TRUE) # "nil"
           THEN Fatal(APIError(resp, TRUE))
           ELSE pc' = "ServiceProvisioning" /\ err' = err
    /\ UNCHANGED << dontCreateService, routeID, replicaCount, q, oldRoute, step,
                    plane, shapes, body, orchestrator, polls, observed,
                    firstMet, pauses, truncated, routeFlag >>

\* createService: c.ServiceCreate(...) on the orchestrator.
ServiceCreate ==
    /\ pc = "ServiceProvisioning"
    /\ orchestrator' = orchestrator + 1
    /\ \E outcome \in DockerOutcomes :
        IF outcome = "ok"
        THEN pc' = "RouteProvisioning" /\ err' = err
        ELSE Fatal("orchestrator")
    /\ UNCHANGED << dontCreateService, routeID, replicaCount, q, oldRoute, step,
                    plane, calls, sent, shapes, body, polls, observed,
                    firstMet, pauses, truncated, routeFlag,
                    lastResp >>

\* main, *dontCreateService: "Skipping service creation".
SkipService ==
    /\ pc = "Init"
    /\ dontCreateService
    /\ pc' = "RouteProvisioning"
    /\ UNCHANGED << dontCreateService, routeID, replicaCount, q, oldRoute, step,
                    err, plane, calls, sent, shapes, body, orchestrator, polls,
                    observed, firstMet, pauses, truncated, routeFlag,
                    lastResp >>

\* A main that creates a route whether or not -route was given.
CreateRoute_Always ==
    /\ pc = "RouteProvisioning"
    /\ \E resp \in Responses :
        /\ Invoke("Route", resp)
        /\ plane' = IF Accepted(resp) THEN ApplyRoute(plane, endpoint, CreatedID)
                    ELSE plane
        /\ IF APIError(resp, TRUE) # "nil"
           THEN Fatal(APIError(resp, TRUE)) /\ routeID' = routeID
           ELSE pc' = "AwaitingReadiness" /\ err' = err /\ routeID' = CreatedID
    /\ UNCHANGED << dontCreateService, replicaCount, q, oldRoute, step, shapes,
                    body, orchestrator, polls, observed, firstMet, pauses,
                    truncated, routeFlag >>

\* main, *routeID == "": createRoute, bp.Route(*endpoint, labels).
CreateRoute ==
    /\ pc = "RouteProvisioning"
    /\ routeID = ""
    /\ \E resp \in Responses :
        /\ Invoke("Route", resp)
        /\ plane' = IF Accepted(resp) THEN ApplyRoute(plane, endpoint, CreatedID)
                    ELSE plane
        /\ IF APIError(resp, TRUE) # "nil"
           THEN Fatal(APIError(resp, TRUE)) /\ routeID' = routeID
           ELSE pc' = "AwaitingReadiness" /\ err' = err /\ routeID' = CreatedID
    /\ UNCHANGED << dontCreateService, replicaCount, q, oldRoute, step, shapes,
                    body, orchestrator, polls, observed, firstMet, pauses,
                    truncated, routeFlag >>

\* main, *routeID != "": "Skipping route creation".
SkipRoute ==
    /\ pc = "RouteProvisioning"
    /\ routeID # ""
    /\ pc' = "AwaitingReadiness"
    /\ UNCHANGED << dontCreateService, routeID, replicaCount, q, oldRoute, step,
                    err, plane, calls, sent, shapes, body, orchestrator, polls,
                    observed, firstMet, pauses, truncated, routeFlag,
                    lastResp >>

\* The count the claims call "desired": a snapshot in which the target Route
\* shows exactly the desired number of bound backends.
Met(snap) == replicaCount \in Counts(snap, routeID)

\* waitForContainers: one iteration of the loop: a tick, bp.Query(), the
\* scan of the snapshot.  The first MaxPolls iterations are recorded in the
\* history variables; later ones run the same code unrecorded.
Poll ==
    /\ pc = "AwaitingReadiness"
    /\ \E resp \in Responses :
        /\ IF polls < MaxPolls
           THEN /\ Invoke("Query", resp)
                /\ polls' = polls + 1
                /\ firstMet' = IF firstMet = 0 /\ APIError(resp, TRUE) = "nil" /\ Met(plane)
                               THEN polls + 1 ELSE firstMet
                /\ truncated' = truncated
           ELSE /\ truncated' = TRUE
                /\ UNCHANGED << calls, sent, polls, firstMet, lastResp >>
        /\ IF APIError(resp, TRUE) # "nil"
           THEN Fatal(APIError(resp, TRUE)) /\ observed' = observed
           ELSE /\ observed' = Counts(plane, routeID)
                /\ err' = err
                /\ pc' = IF Ready(plane, routeID, replicaCount)
                         THEN "IncumbentQuery" ELSE "AwaitingReadiness"
    /\ UNCHANGED << dontCreateService, routeID, replicaCount, q, oldRoute, step,
                    plane, shapes, body, orchestrator, pauses, routeFlag >>

\* Environment, between two polls: backends register with or leave the
\* target Route, so its bound-backend count takes another value.
BackendsChange ==
    /\ pc = "AwaitingReadiness"
    /\ \E i \in DOMAIN plane, n \in 0..MaxBackends :
        /\ plane[i].Pattern = endpoint
        /\ \E j \in DOMAIN plane[i].Routes :
            /\ plane[i].Routes[j].ID = routeID
            /\ plane[i].Routes[j].Backends # n
            /\ plane' = [plane EXCEPT ![i].Routes[j].Backends = n]
    /\ UNCHANGED << pc, dontCreateService, routeID, replicaCount, q, oldRoute,
                    step, err, calls, sent, shapes, body, orchestrator, polls,
                    observed, firstMet, pauses, truncated, routeFlag,
                    lastResp >>

\* main: bp.Query() after the wait, then the two loops that pick myEndpoint
\* and oldRoute.
IncumbentQuery ==
    /\ pc = "IncumbentQuery"
    /\ \E resp \in Responses :
        /\ Invoke("Query", resp)
        /\ IF APIError(resp, TRUE) # "nil"
           THEN Fatal(APIError(resp, TRUE)) /\ UNCHANGED << q, oldRoute >>
           ELSE /\ q' = << plane >>
                /\ oldRoute' = SelectOldRoute(SelectEndpoint(q'[1])).ID
                /\ pc' = "Shaping"
                /\ err' = err
    /\ UNCHANGED << dontCreateService, routeID, replicaCount, step, plane,
                    shapes, body, orchestrator, polls, observed, firstMet,
                    pauses, truncated, routeFlag >>

\* main: the step-th call shape(bp, oldRoute.ID, *routeID, old, new), which
\* is bp.Shape(*endpoint, weights).
Shape ==
    /\ pc = "Shaping"
    /\ LET weights == ShapeWeights(oldRoute, routeID, Steps[step][1], Steps[step][2])
       IN \E resp \in Responses, o \in Orders(DOMAIN weights) :
            /\ Invoke("Shape", resp)
            /\ body' = ShapeBody(weights, o)
            /\ shapes' = Append(shapes, [weights |-> weights,
                                         ok |-> APIError(resp, FALSE) = "nil"])
            /\ plane' = IF Accepted(resp) THEN ApplyShape(plane, endpoint, body')
                        ELSE plane
            /\ pc' = AfterShape(APIError(resp, FALSE), step)
            /\ err' = IF APIError(resp, FALSE) # "nil" THEN APIError(resp, FALSE) ELSE err
    /\ UNCHANGED << dontCreateService, routeID, replicaCount, q, oldRoute, step,
                    orchestrator, polls, observed, firstMet, pauses, truncated, routeFlag >>

\* main: time.Sleep(*shapePause) between two shape calls.
Pause ==
    /\ pc = "Pausing"
    /\ pauses' = pauses + 1
    /\ step' = step + 1
    /\ pc' = "Shaping"
    /\ UNCHANGED << dontCreateService, routeID, replicaCount, q, oldRoute, err,
                    plane, calls, sent, shapes, body, orchestrator, polls,
                    observed, firstMet, truncated, routeFlag,
                    lastResp >>

\* The steps of the program, and those of its environment.
Program ==
    \/ GenToken
    \/ ServiceCreate
    \/ SkipService
    \/ CreateRoute
    \/ SkipRoute
    \/ Poll
    \/ IncumbentQuery
    \/ Shape
    \/ Pause

Next == Program \/ BackendsChange

Spec == Init /\ [][Next]_vars

\* The ticker of waitForContainers fires every second and main runs on its
\* own goroutine: a program step that stays possible is eventually taken.
FairSpec == Spec /\ WF_vars(Program)

TypeOK ==
    /\ pc \in {"Init", "ServiceProvisioning", "RouteProvisioning",
               "AwaitingReadiness", "IncumbentQuery", "Shaping", "Pausing",
               "Complete", "Failed"}
    /\ step \in 1..Len(Steps)
    /\ polls \in 0..MaxPolls
    /\ err \in {"nil", "transport", "status", "decode", "orchestrator"}

(* ------------------------------ claims -------------------------------- *)

\* Positions of main after waitForContainers has returned.
PostWait == {"IncumbentQuery", "Shaping", "Pausing", "Complete"}

\* The weights maps of the Shape requests made so far, in order.
ShapeMaps == [i \in DOMAIN shapes |-> shapes[i].weights]

\* Sum of the weights of a weights map.
RECURSIVE SumOver(_, _)
SumOver(w, keys) ==
    IF keys = {} THEN 0
    ELSE LET k == CHOOSE x \in keys : TRUE IN w[k] + SumOver(w, keys \ {k})
SumWeights(w) == SumOver(w, DOMAIN w)

\* s is an initial part of t.
IsPrefix(s, t) == Len(s) <= Len(t) /\ \A i \in DOMAIN s : s[i] = t[i]

\* The snapshot main queried has the target Endpoint, and r1 is its one
\* Route of weight 100.
SoleIncumbent(r1) ==
    /\ q # << >>
    /\ \E i \in DOMAIN q[1] :
        /\ q[1][i].Pattern = endpoint
        /\ { q[1][i].Routes[j].ID :
               j \in { k \in DOMAIN q[1][i].Routes : q[1][i].Routes[k].Weight = 100 } } = {r1}

\* The snapshot main queried has no Route of weight 100 under the target
\* Endpoint (the Endpoint may be absent).
NoIncumbent ==
    /\ q # << >>
    /\ \A i \in DOMAIN q[1] :
        q[1][i].Pattern = endpoint =>
            \A j \in DOMAIN q[1][i].Routes : q[1][i].Routes[j].Weight # 100

\* The Shape requests the default plan asks for, between r1 and r2.
PlanFor(r1, r2) ==
    << (r1 :> 75) @@ (r2 :> 25), (r1 :> 50) @@ (r2 :> 50),
       (r1 :> 25) @@ (r2 :> 75), (r1 :> 0) @@ (r2 :> 100) >>

\* C1: with an incumbent r1 of weight 100 and a distinct new route r2, the
\* Shape requests issued are at every moment an initial part of
\* {r1:75,r2:25}, {r1:50,r2:50}, {r1:25,r2:75}, {r1:0,r2:100}, none is issued
\* before the incumbent is resolved, and a run in which every call succeeded
\* has issued exactly these four.
C1_ShapeSequence ==
    /\ q = << >> => shapes = << >>
    /\ \A r1 \in ExistingIDs \cup {CreatedID} :
        (SoleIncumbent(r1) /\ r1 # routeID) =>
            /\ IsPrefix(ShapeMaps, PlanFor(r1, routeID))
            /\ pc = "Complete" => ShapeMaps = PlanFor(r1, routeID)

C1_Witness ==
    /\ pc = "Complete"
    /\ SoleIncumbent("r1")
    /\ routeID = "r2"
    /\ ShapeMaps = PlanFor("r1", "r2")

\* C2: when the snapshot queried before shaping has no Route of weight 100
\* under the target Endpoint, the rollout issues no Shape request, does not
\* complete, and the error it ends with is NoIncumbentRoute.
C2_NoIncumbentFails ==
    NoIncumbent =>
        /\ shapes = << >>
        /\ pc # "Complete"
        /\ pc = "Failed" => err = "NoIncumbentRoute"

\* C3: the wait returns at the first poll whose snapshot shows the target
\* Route with a bound-backend count that meets or exceeds the desired count:
\* it is never still waiting after a poll that saw such a count.
C3_ReturnsWhenMetOrExceeded ==
    pc = "AwaitingReadiness" => \A c \in observed : c < replicaCount

\* C4: the wait never returns on a poll whose snapshot shows fewer bound
\* backends on the target Route than desired; no incumbent Query and no
\* Shape request is issued before a poll has seen the target Route with the
\* desired number of bound backends.
C4_NoReturnBelowDesired ==
    (\/ pc \in PostWait
     \/ \E k \in DOMAIN calls : calls[k].at \in {"IncumbentQuery", "Shaping"}
     \/ shapes # << >>)
    => /\ observed # {}
       /\ \A c \in observed : c >= replicaCount
       /\ replicaCount \in observed

C4_Witness ==
    /\ pc = "Shaping"
    /\ replicaCount = 2
    /\ observed = {2}
    /\ polls = 3

\* Query calls made by waitForContainers.
WaitQueries == Cardinality({ k \in DOMAIN calls : calls[k].at = "AwaitingReadiness" })

OkShapes == Cardinality({ i \in DOMAIN shapes : shapes[i].ok })

\* C6: steps are applied in the declared order, with exactly one pause
\* between consecutive successful steps (4 steps, 3 pauses), each pause
\* after a Shape that succeeded, none after the final (0,100) step.
C6_PausesBetweenSteps ==
    /\ \A i \in DOMAIN shapes :
        shapes[i].weights[routeID] = << 25, 50, 75, 100 >>[i]
    /\ \A i \in DOMAIN shapes : i < Len(shapes) => shapes[i].ok
    /\ pauses <= OkShapes
    /\ pauses <= 3
    /\ pc = "Shaping" => (pauses = Len(shapes) /\ OkShapes = Len(shapes))
    /\ pc = "Pausing" => (pauses = Len(shapes) - 1 /\ OkShapes = Len(shapes))
    /\ pc = "Complete" => (Len(shapes) = 4 /\ OkShapes = 4 /\ pauses = 3)

C6_Witness ==
    /\ pc = "Complete"
    /\ pauses = 3
    /\ Len(shapes) = 4

\* C7: every Shape request sent carries weights that sum to 100, whatever
\* the snapshot returned (stated of the requests the routing plane answered
\* with 200, which were certainly sent and not rejected beforehand).
C7_WeightsSumTo100 ==
    \A i \in DOMAIN shapes : shapes[i].ok => SumWeights(shapes[i].weights) = 100

\* C8: a non-200 response to a routing-plane call ends the run in Failed
\* with that error: the call that got it is the last call made, its request
\* the last request sent, the orchestrator is not called after a failed
\* token Query, and a run that completed has had no such response.
C8_Non200IsFatal ==
    /\ \A k \in DOMAIN calls :
        calls[k].err = "status" =>
            /\ k = Len(calls)
            /\ pc = "Failed"
            /\ err = "status"
            /\ Len(sent) = k
            /\ (calls[k].op = "GenToken" => orchestrator = 0)
            /\ (calls[k].op = "Shape" => pauses = Len(shapes) - 1)
    /\ err = "status" => pc = "Failed"

C8_Witness ==
    /\ pc = "Failed"
    /\ err = "status"
    /\ Len(shapes) = 3
    /\ calls[Len(calls)].op = "Shape"
    /\ calls[Len(calls)].err = "status"

\* C9: every run eventually reaches Complete or Failed.
C9_Terminates == <>(pc \in {"Complete", "Failed"})

\* C10: every Client operation invoked has handed exactly one request to
\* the HTTP client, the request of that operation, whether it succeeded or
\* failed.
C10_OneRequestPerCall ==
    /\ Len(sent) = Len(calls)
    /\ \A k \in DOMAIN calls :
        /\ k \in DOMAIN sent
        /\ sent[k] = [method |-> OpMethod(calls[k].op), path |-> OpPath(calls[k].op)]

C10_Witness ==
    /\ pc = "Failed"
    /\ Len(calls) >= 4
    /\ calls[1].op = "GenToken"
    /\ calls[2].op = "Route"
    /\ calls[Len(calls)].op = "Shape"
    /\ calls[Len(calls)].err # "nil"
    /\ Len(sent) = Len(calls)

\* createRoute requests made so far.
RouteCalls == { k \in DOMAIN calls : calls[k].op = "Route" }

\* C11: with -route given, no createRoute request is ever made and that
\* identifier is the one the wait polls and every Shape request names as the
\* new route; with none given, exactly one createRoute request is made before
\* the wait and the identifier it returned is used for both.
C11_RoutePassthrough ==
    /\ routeFlag # "" => (RouteCalls = {} /\ routeID = routeFlag)
    /\ routeFlag = "" =>
        /\ Cardinality(RouteCalls) <= 1
        /\ routeID \in {"", CreatedID}
        /\ routeID = CreatedID <=> (\E k \in RouteCalls : calls[k].err = "nil")
        /\ pc \in PostWait \cup {"AwaitingReadiness"} => routeID = CreatedID
    /\ pc \in PostWait => (observed # {} /\ observed = Counts(plane, routeID))
    /\ \A i \in DOMAIN shapes :
        /\ routeID \in DOMAIN shapes[i].weights
        /\ shapes[i].weights[routeID] = << 25, 50, 75, 100 >>[i]

C11_Witness ==
    /\ pc = "Complete"
    /\ routeFlag = ""
    /\ routeID = CreatedID
    /\ Cardinality(RouteCalls) = 1

\* C12: a poll whose snapshot lacks the target Endpoint or the target Route
\* neither ends the wait nor fails it: the wait is still polling after it,
\* unless the Query of that poll itself failed.
C12_AbsentIsNotReady ==
    [][(pc = "AwaitingReadiness" /\ Counts(plane, routeID) = {}) =>
          /\ pc' \in {"AwaitingReadiness", "Failed"}
          /\ pc' = "Failed" =>
                /\ err' \in {"transport", "status", "decode"}
                /\ ~truncated' => calls'[Len(calls')].err = err']_vars

C12_Witness ==
    /\ pc = "AwaitingReadiness"
    /\ polls = 2
    /\ observed = {}
    /\ Counts(plane, routeID) = {}
    /\ err = "nil"

\* C13: a Query that fails during the wait ends the run at once: it is the
\* last call made, no further poll follows it, the run is Failed with that
\* error, and no Shape request and no incumbent Query was ever made.
C13_WaitQueryFailureIsFatal ==
    \A k \in DOMAIN calls :
        (calls[k].at = "AwaitingReadiness" /\ calls[k].err # "nil") =>
            /\ k = Len(calls)
            /\ pc = "Failed"
            /\ err = calls[k].err
            /\ shapes = << >>
            /\ q = << >>
            /\ ~truncated => polls = WaitQueries

C13_Witness ==
    /\ pc = "Failed"
    /\ polls = 2
    /\ calls[Len(calls)].at = "AwaitingReadiness"
    /\ calls[Len(calls)].err = "decode"

\* The weights a topology holds for the route id under the target Endpoint.
RouteWeights(topology, id) ==
    UNION { { topology[i].Routes[j].Weight :
                j \in { k \in DOMAIN topology[i].Routes : topology[i].Routes[k].ID = id } } :
            i \in { k \in DOMAIN topology : topology[k].Pattern = endpoint } }

\* The incumbent main resolved is a route, and not the new route.
DistinctIncumbent == q # << >> /\ oldRoute # "" /\ oldRoute # routeID

\* The default plan: the incumbent's and the new route's weight at each step.
OldPlan == << 75, 50, 25, 0 >>
NewPlan == << 25, 50, 75, 100 >>

\* Shape requests made so far, as calls.
ShapeCalls == { k \in DOMAIN calls : calls[k].op = "Shape" }

\* C14: when the Shape request of step k fails, it is the last request of
\* the run: no later step, no second attempt, no compensating request; and
\* the routing plane still holds, for the incumbent and the new route, the
\* pair of step k-1 (their weights before the rollout when k = 1).
C14_FailedStepLeavesLastPair ==
    \A k \in DOMAIN shapes :
        ~shapes[k].ok =>
            /\ k = Len(shapes)
            /\ pc = "Failed"
            /\ calls[Len(calls)].op = "Shape"
            /\ Cardinality(ShapeCalls) = k
            /\ \A i \in 1..k : shapes[i].weights[routeID] = NewPlan[i]
            /\ \A i \in 1..(k - 1) : shapes[i].ok
            /\ DistinctIncumbent =>
                /\ RouteWeights(plane, oldRoute) =
                       IF k = 1 THEN RouteWeights(q[1], oldRoute) ELSE {OldPlan[k - 1]}
                /\ RouteWeights(plane, routeID) =
                       IF k = 1 THEN RouteWeights(q[1], routeID) ELSE {NewPlan[k - 1]}

C14_Witness ==
    /\ pc = "Failed"
    /\ Len(shapes) = 3
    /\ ~shapes[3].ok
    /\ DistinctIncumbent
    /\ RouteWeights(plane, oldRoute) = {50}
    /\ RouteWeights(plane, routeID) = {50}

\* The stage of the rollout a recorded call belongs to.
Stage(c) ==
    CASE c.op = "GenToken" -> 1
      [] c.op = "Route" -> 3
      [] c.op = "Query" /\ c.at = "AwaitingReadiness" -> 4
      [] c.op = "Query" /\ c.at # "AwaitingReadiness" -> 5
      [] c.op = "Shape" -> 6

CallsOfStage(n) == { k \in DOMAIN calls : Stage(calls[k]) = n }

\* C15: calls are made in stage order (token Query and service creation,
\* createRoute, readiness polls, incumbent Query, Shape requests), each only
\* after the calls before it succeeded; -dont-create-service makes neither
\* the token Query nor the orchestrator call.
C15_StageOrder ==
    /\ \A k \in 1..(Len(calls) - 1) :
        /\ Stage(calls[k]) <= Stage(calls[k + 1])
        /\ calls[k].err = "nil"
    /\ \A n \in {1, 3, 5} : Cardinality(CallsOfStage(n)) <= 1
    /\ orchestrator <= 1
    /\ dontCreateService => (CallsOfStage(1) = {} /\ orchestrator = 0)
    /\ ~dontCreateService =>
        /\ calls # << >> => Stage(calls[1]) = 1
        /\ orchestrator = 1 => (calls # << >> /\ calls[1].err = "nil")
        /\ Len(calls) >= 2 => (orchestrator = 1 /\ err # "orchestrator")
    /\ (\E n \in {4, 5, 6} : CallsOfStage(n) # {}) =>
        /\ routeID # ""
        /\ routeFlag = "" => (\E k \in CallsOfStage(3) : calls[k].err = "nil")
    /\ (\E n \in {5, 6} : CallsOfStage(n) # {}) => replicaCount \in observed
    /\ CallsOfStage(6) # {} => (q # << >> /\ \E k \in CallsOfStage(5) : calls[k].err = "nil")

C15_Witness ==
    /\ pc = "Complete"
    /\ ~dontCreateService
    /\ routeFlag = ""
    /\ orchestrator = 1
    /\ polls = 2
    /\ [k \in DOMAIN calls |-> Stage(calls[k])] = << 1, 3, 4, 4, 5, 6, 6, 6, 6 >>

\* C16: main is at Complete only when its last request was the Shape of the
\* final step, giving the new route 100 and the incumbent 0, and succeeded;
\* with a distinct incumbent the routing plane then holds 100 for the new
\* route and 0 for the incumbent.
C16_CompleteMeansCutover ==
    pc = "Complete" =>
        /\ Len(shapes) = 4
        /\ shapes[4].ok
        /\ calls[Len(calls)].op = "Shape"
        /\ calls[Len(calls)].err = "nil"
        /\ shapes[4].weights[routeID] = 100
        /\ oldRoute # routeID => shapes[4].weights = (oldRoute :> 0) @@ (routeID :> 100)
        /\ DistinctIncumbent =>
            /\ RouteWeights(plane, routeID) = {100}
            /\ RouteWeights(plane, oldRoute) = {0}

C16_Witness ==
    /\ pc = "Complete"
    /\ DistinctIncumbent
    /\ RouteWeights(q[1], oldRoute) = {100}
    /\ RouteWeights(q[1], routeID) = {0}
    /\ RouteWeights(plane, routeID) = {100}
    /\ RouteWeights(plane, oldRoute) = {0}

\* The last recorded call is the call the last response answered.
LastCallAnswered ==
    /\ calls # << >>
    /\ ~truncated \/ calls[Len(calls)].at # "AwaitingReadiness"

\* C17: a call of the client returns an error exactly when the request got
\* no response, the status is not 200, or an output was asked for and the
\* body does not decode; a Query answered 200 with a decodable body returns
\* the snapshot, and a Shape answered 200 succeeds whatever the body.
C17_APIErrorExactly ==
    LastCallAnswered =>
        LET c == calls[Len(calls)] IN
        /\ c.err # "nil" <=>
               \/ ~lastResp.transport
               \/ lastResp.status # 200
               \/ c.op # "Shape" /\ ~lastResp.decodable
        /\ c.err = "transport" <=> ~lastResp.transport
        /\ c.err = "status" <=> (lastResp.transport /\ lastResp.status # 200)
        /\ c.err # "nil" => (pc = "Failed" /\ err = c.err)
        /\ (c.op = "Query" /\ c.at = "IncumbentQuery" /\ lastResp.transport
              /\ lastResp.status = 200 /\ lastResp.decodable) =>
               (q = << plane >> /\ pc = "Shaping")
        /\ (c.op = "Shape" /\ lastResp.transport /\ lastResp.status = 200) =>
               (shapes[Len(shapes)].ok /\ pc \in {"Pausing", "Shaping", "Complete"})

C17_Witness ==
    /\ pc = "Complete"
    /\ calls[Len(calls)].op = "Shape"
    /\ calls[Len(calls)].err = "nil"
    /\ lastResp = [transport |-> TRUE, status |-> 200, decodable |-> FALSE]

\* The identifiers a snapshot offers as incumbent: the Route of weight 100
\* that no Route of weight 100 precedes, under the matching Endpoint that no
\* matching Endpoint precedes.
FirstFull(snap) ==
    UNION { { snap[i].Routes[j].ID :
                j \in { c \in DOMAIN snap[i].Routes :
                          /\ snap[i].Routes[c].Weight = 100
                          /\ \A d \in 1..(c - 1) : snap[i].Routes[d].Weight # 100 } } :
            i \in { a \in DOMAIN snap :
                      /\ snap[a].Pattern = endpoint
                      /\ \A b \in 1..(a - 1) : snap[b].Pattern # endpoint } }

\* C18: the incumbent is resolved once, from the one Query made after the
\* wait returned and before the first Shape, as the first Route of weight
\* 100 under the first matching Endpoint of that snapshot; every Shape
\* request names that incumbent and the new route, and no other route.
C18_IncumbentResolvedOnce ==
    /\ Cardinality(CallsOfStage(5)) <= 1
    /\ \A k \in CallsOfStage(5) :
        /\ \A m \in CallsOfStage(4) : m < k
        /\ \A m \in CallsOfStage(6) : k < m
        /\ replicaCount \in observed
    /\ Len(q) <= 1
    /\ q # << >> <=> (\E k \in CallsOfStage(5) : calls[k].err = "nil")
    /\ q = << >> => (oldRoute = "" /\ shapes = << >>)
    /\ q # << >> =>
        IF FirstFull(q[1]) = {} THEN oldRoute = "" ELSE FirstFull(q[1]) = {oldRoute}
    /\ \A i \in DOMAIN shapes : DOMAIN shapes[i].weights = {oldRoute, routeID}

C18_Witness ==
    /\ pc = "Complete"
    /\ oldRoute = "r1"
    /\ routeID = CreatedID
    /\ q[1][1].Pattern = OtherPattern
    /\ Cardinality({ j \in DOMAIN q[1][2].Routes : q[1][2].Routes[j].Weight = 100 }) = 2
    /\ \A i \in DOMAIN shapes : DOMAIN shapes[i].weights = {"r1", CreatedID}

\* The weight the later topology holds for the route id is not below (not
\* above) the weight the earlier one holds for it.
NotDecreased(before, after, id) ==
    \A w \in RouteWeights(before, id), v \in RouteWeights(after, id) : v >= w

NotIncreased(before, after, id) ==
    \A w \in RouteWeights(before, id), v \in RouteWeights(after, id) : v <= w

\* The sums of the incumbent's and the new route's weight in a topology.
PairSums(topology) ==
    { a + b : a \in RouteWeights(topology, oldRoute),
              b \in RouteWeights(topology, routeID) }

SomeShapeApplied == \E i \in DOMAIN shapes : shapes[i].ok

\* C19, as stated: with a distinct incumbent, no step of the rollout lowers
\* the new route's weight on the routing plane or raises the incumbent's,
\* and once a Shape has succeeded the two weights sum to 100.
C19_MonotoneShift ==
    [][DistinctIncumbent =>
          /\ NotDecreased(plane, plane', routeID)
          /\ NotIncreased(plane, plane', oldRoute)
          /\ SomeShapeApplied' => PairSums(plane') = {100}]_vars

\* C19, amended: the incumbent's weight is never raised, the new route's
\* weight is never lowered once a Shape has succeeded, and from then on the
\* two weights sum to 100.
C19_MonotoneAfterFirstShape ==
    [][DistinctIncumbent =>
          /\ SomeShapeApplied => NotDecreased(plane, plane', routeID)
          /\ NotIncreased(plane, plane', oldRoute)
          /\ SomeShapeApplied' => PairSums(plane') = {100}]_vars

C19_Witness ==
    /\ pc = "Complete"
    /\ DistinctIncumbent
    /\ RouteWeights(q[1], routeID) = {100}
    /\ RouteWeights(q[1], oldRoute) = {100}
    /\ RouteWeights(plane, routeID) = {100}
    /\ RouteWeights(plane, oldRoute) = {0}

====
